---- MODULE Spec2Model ----
(***************************************************************************)
(* steamlet (src/main.rs): a command-line launcher that keeps a mapping    *)
(* alias -> Steam game id in <data_local_dir>/steamlet/steamlet.json and   *)
(* starts Steam with steam://run/<id>.                                     *)
(*                                                                         *)
(* A String is a sequence of one-character strings.  The backing file is   *)
(* [toks, junk]: the tokens of the JSON document at its start followed by  *)
(* junk bytes that are no part of it.  One invocation of the program is    *)
(* the record inv[p]; its pc walks through main().  Of its fields, loaded   *)
(* (the map get_alias_data returned), file0 (the file as it was opened),   *)
(* opened, trace and writes record what happened and steer nothing.        *)
(* fs is the data directory and the file, scen follows the run of          *)
(* commands so far, lastWrite is the last write to the file.               *)
(***************************************************************************)
EXTENDS Integers, Sequences, FiniteSets, TLC

VARIABLES fs, inv, scen, lastWrite

vars == <<fs, inv, scen, lastWrite>>

Procs == {1, 2}

\* longest list of aliases given to `remove`
MaxRemove == 2
\* bytes of the invalid content a backing file may hold at the start
GarbageLen == 24

----------------------------------------------------------------------------
(* Strings                                                                 *)

ets2 == <<"e", "t", "s", "2">>
ETS2 == <<"E", "T", "S", "2">>
padEts2 == <<" ", "E", "t", "s", "2", " ">>
blank == <<" ", " ">>
nothing == <<>>
bee == <<"b">>

\* the aliases a user types
AliasInputs == {ets2, ETS2, padEts2, blank, nothing, bee}

\* what a user types after `play -i`
NumInputs == {<<"1">>, <<"2", "2", "7", "3", "0", "0">>, <<"+", "1">>,
              <<"4", "2", "9", "4", "9", "6", "7", "2", "9", "6">>}

\* steam_id: u32 of `set`
GameIds == {1, 227300}

\* u32::MAX, 4294967295, in digits
U32MaxDigits == <<"4", "2", "9", "4", "9", "6", "7", "2", "9", "5">>

\* char::to_lowercase on the characters used
LowerChar(c) ==
    CASE c = "E" -> "e"
      [] c = "T" -> "t"
      [] c = "S" -> "s"
      [] c = "B" -> "b"
      [] OTHER -> c

\* str::to_lowercase
to_lowercase(s) == [i \in 1..Len(s) |-> LowerChar(s[i])]

\* char::is_whitespace
IsWhite(c) == c \in {" ", "\t", "\n"}

RECURSIVE trim_start(_)
trim_start(s) ==
    IF s # <<>> /\ IsWhite(Head(s)) THEN trim_start(Tail(s)) ELSE s

RECURSIVE trim_end(_)
trim_end(s) ==
    IF s # <<>> /\ IsWhite(s[Len(s)])
    THEN trim_end(SubSeq(s, 1, Len(s) - 1))
    ELSE s

\* str::trim
trim(s) == trim_end(trim_start(s))

DigitChars == <<"0", "1", "2", "3", "4", "5", "6", "7", "8", "9">>

IsDigit(c) == \E d \in 1..10 : DigitChars[d] = c

DigitVal(c) == (CHOOSE d \in 1..10 : DigitChars[d] = c) - 1

RECURSIVE DigitsValue(_, _)
DigitsValue(s, acc) ==
    IF s = <<>> THEN acc
    ELSE DigitsValue(Tail(s), acc * 10 + DigitVal(Head(s)))

Err == -1

RECURSIVE StripZeros(_)
StripZeros(s) ==
    IF Len(s) > 1 /\ Head(s) = "0" THEN StripZeros(Tail(s)) ELSE s

\* the digits denote a number above u32::MAX (digit strings of one length
\* compare as their numbers do)
Overflows(t) ==
    LET z == StripZeros(t)
    IN  \/ Len(z) > Len(U32MaxDigits)
        \/ /\ Len(z) = Len(U32MaxDigits)
           /\ \E i \in 1..Len(z) :
                 /\ DigitVal(z[i]) > DigitVal(U32MaxDigits[i])
                 /\ \A j \in 1..(i - 1) : z[j] = U32MaxDigits[j]

\* <u32 as FromStr>::from_str: an optional '+', then one digit or more, no
\* overflow; Err otherwise
ParseU32(s) ==
    LET t == IF s # <<>> /\ Head(s) = "+" THEN Tail(s) ELSE s
    IN  IF t = <<>> \/ \E i \in 1..Len(t) : ~IsDigit(t[i]) THEN Err
        ELSE IF Overflows(t) THEN Err
        ELSE DigitsValue(t, 0)

\* <u32 as Display>::fmt
RECURSIVE ToDigits(_)
ToDigits(n) ==
    IF n < 10 THEN <<DigitChars[n + 1]>>
    ELSE ToDigits(n \div 10) \o <<DigitChars[(n % 10) + 1]>>

\* format!("steam://run/{}", game_id)
DeepLink(game_id) == <<"steam://run/">> \o ToDigits(game_id)

\* byte order of the characters used (str::cmp)
Ord(c) ==
    CASE c = "\t" -> 9
      [] c = "\n" -> 10
      [] c = " " -> 32
      [] c = "+" -> 43
      [] IsDigit(c) -> 48 + DigitVal(c)
      [] c = "B" -> 66
      [] c = "E" -> 69
      [] c = "S" -> 83
      [] c = "T" -> 84
      [] c = "b" -> 98
      [] c = "e" -> 101
      [] c = "s" -> 115
      [] c = "t" -> 116
      [] OTHER -> 127

RECURSIVE StrLess(_, _)
StrLess(a, b) ==
    IF b = <<>> THEN FALSE
    ELSE IF a = <<>> THEN TRUE
    ELSE IF Ord(Head(a)) # Ord(Head(b)) THEN Ord(Head(a)) < Ord(Head(b))
    ELSE StrLess(Tail(a), Tail(b))

----------------------------------------------------------------------------
(* HashMap<String, u32> and its JSON form                                  *)

EmptyMap == [k \in {} |-> 0]

\* HashMap::insert
Insert(data, k, v) ==
    [x \in DOMAIN data \cup {k} |-> IF x = k THEN v ELSE data[x]]

\* retain with the test the wrong way round: the keys asked to go stay
RetainInverted(data, keep) ==
    [x \in {k \in DOMAIN data : k \notin keep} |-> data[x]]

\* HashMap::retain
Retain(data, keep) == [x \in {k \in DOMAIN data : k \in keep} |-> data[x]]

LBrace == [t |-> "{", k |-> <<>>, v |-> 0]
RBrace == [t |-> "}", k |-> <<>>, v |-> 0]
Entry(k, v) == [t |-> "entry", k |-> k, v |-> v]

\* the orders in which a HashMap may hand out its keys
KeyOrders(data) ==
    {o \in [1..Cardinality(DOMAIN data) -> DOMAIN data] :
        \A i, j \in DOMAIN o : i # j => o[i] # o[j]}

\* serde_json::to_writer_pretty on the map, its keys taken in order o
Serialize(data, o) ==
    <<LBrace>> \o [i \in 1..Len(o) |-> Entry(o[i], data[o[i]])] \o <<RBrace>>

\* bytes of the pretty-printed document: "{", then per entry "\n  " + '"' +
\* key + '"' + ": " + digits and a "," between entries, then "\n}" ("}" alone
\* for the empty map)
RECURSIVE EntryBytes(_)
EntryBytes(toks) ==
    IF toks = <<>> THEN 0
    ELSE (IF Head(toks).t = "entry"
          THEN 7 + Len(Head(toks).k) + Len(ToDigits(Head(toks).v))
          ELSE 0) + EntryBytes(Tail(toks))

Bytes(toks) ==
    IF toks = <<>> THEN 0
    ELSE IF Len(toks) = 2 THEN 2
    ELSE 1 + EntryBytes(toks) + (Len(toks) - 3) + 2

RECURSIVE ParseEntries(_, _)
ParseEntries(toks, acc) ==
    IF toks = <<>> THEN acc
    ELSE ParseEntries(Tail(toks), Insert(acc, Head(toks).k, Head(toks).v))

\* the document is one object of string keys and numbers and nothing follows
WellFormed(f) ==
    /\ f.junk = 0
    /\ Len(f.toks) >= 2
    /\ f.toks[1] = LBrace
    /\ f.toks[Len(f.toks)] = RBrace
    /\ \A i \in 2..(Len(f.toks) - 1) : f.toks[i].t = "entry"

\* serde_json::from_reader(buf_reader).unwrap_or(HashMap::new())
FromReader(f) ==
    IF WellFormed(f)
    THEN ParseEntries(SubSeq(f.toks, 2, Len(f.toks) - 1), EmptyMap)
    ELSE EmptyMap

----------------------------------------------------------------------------
(* The file system                                                         *)

NoFile == [toks |-> <<>>, junk |-> -1]
EmptyFile == [toks |-> <<>>, junk |-> 0]
GarbageFile == [toks |-> <<>>, junk |-> GarbageLen]

FileLen(f) == Bytes(f.toks) + f.junk

\* the file is not cut before it is written
SetLenSkipped(f) == f

\* File::set_len(0)
SetLen0(f) == EmptyFile

\* the BufWriter's bytes never reach the file
WriteUnflushed(f, toks) == f

\* write of the document toks at offset 0: it replaces the first Bytes(toks)
\* bytes and whatever the file holds beyond them stays
WriteAt0(f, toks) ==
    [toks |-> toks,
     junk |-> IF FileLen(f) > Bytes(toks) THEN FileLen(f) - Bytes(toks) ELSE 0]

----------------------------------------------------------------------------
(* Command line (struct Steamlet / enum SteamletCommand)                   *)

Cmd(op, use_id, game_str, alias, id, aliases) ==
    [op |-> op, use_id |-> use_id, game_str |-> game_str, alias |-> alias,
     id |-> id, aliases |-> aliases]

NoCmd == Cmd("none", FALSE, <<>>, <<>>, 0, <<>>)
PlayCmd(use_id, game_str) == Cmd("play", use_id, game_str, <<>>, 0, <<>>)
SetCmd(alias, id) == Cmd("set", FALSE, <<>>, alias, id, <<>>)
RemoveCmd(aliases) == Cmd("remove", FALSE, <<>>, <<>>, 0, aliases)
ListCmd == Cmd("list", FALSE, <<>>, <<>>, 0, <<>>)

\* the aliases a user asks to remove
RemoveInputs == {ets2, ETS2, bee}

\* Vec<String> with min_values = 1
RemoveLists ==
    UNION {[1..n -> RemoveInputs] : n \in 1..MaxRemove}

Commands ==
    {PlayCmd(u, g) : u \in BOOLEAN, g \in AliasInputs \cup NumInputs}
    \cup {SetCmd(a, id) : a \in AliasInputs, id \in GameIds}
    \cup {RemoveCmd(l) : l \in RemoveLists}
    \cup {ListCmd}

\* the commands of two invocations that run at once
ConcCommands ==
    {SetCmd(ets2, 227300), SetCmd(bee, 1), SetCmd(bee, 227300),
     RemoveCmd(<<ets2>>), RemoveCmd(<<bee>>)}

\* a line on standard output
Msg(kind, s, id, total) == [kind |-> kind, s |-> s, id |-> id, total |-> total]

NoMsg == Msg("", <<>>, 0, 0)

\* something the invocation did to the outside: a resolved game id, the
\* probe, a started client
Event(ev, prog, link) == [ev |-> ev, prog |-> prog, link |-> link]

\* one invocation of the program before main() runs
NewInv(c) ==
    [cmd |-> c, pc |-> "main", dir_exists |-> FALSE, data |-> EmptyMap,
     loaded |-> EmptyMap, file0 |-> NoFile, opened |-> FALSE,
     aliases |-> <<>>, message |-> NoMsg, out |-> <<>>, game_id |-> 0,
     res |-> {}, trace |-> <<>>, writes |-> 0]

Idle == [NewInv(NoCmd) EXCEPT !.pc = "idle"]

Terminal == {"idle", "done", "aborted"}

\* the process aborts: panic!/unwrap/expect
Abort(r) == [r EXCEPT !.pc = "aborted"]

Println(r, m) == [r EXCEPT !.out = Append(@, m)]

----------------------------------------------------------------------------
(* get_alias_data                                                          *)

\* data_dir.exists()
DataDirExists(p) ==
    /\ inv[p].pc = "main"
    /\ ~(inv[p].cmd.op = "play" /\ inv[p].cmd.use_id)
    /\ inv' = [inv EXCEPT ![p] = [@ EXCEPT !.dir_exists = fs.dir,
                                           !.pc = "open"]]
    /\ UNCHANGED <<fs, scen, lastWrite>>

\* no directory was seen: create_dir_all, then create_new(true) on the file,
\* which fails on a file that exists
CreateDataFile(r) ==
    IF fs.file # NoFile
    THEN [fs |-> [fs EXCEPT !.dir = TRUE], r |-> Abort(r)]
    ELSE [fs |-> [dir |-> TRUE, file |-> EmptyFile],
          r |-> [r EXCEPT !.opened = TRUE, !.pc = "cmd"]]

\* the directory was seen: open the file that is there, which fails on a
\* missing file, and read it, an unreadable document giving the empty map
ReadDataFile(r) ==
    IF fs.file = NoFile
    THEN [fs |-> fs, r |-> Abort(r)]
    ELSE [fs |-> fs,
          r |-> [r EXCEPT !.data = FromReader(fs.file),
                          !.loaded = FromReader(fs.file),
                          !.file0 = fs.file,
                          !.opened = TRUE,
                          !.pc = "cmd"]]

OpenDataFile(p) ==
    /\ inv[p].pc = "open"
    /\ LET got == IF inv[p].dir_exists
                  THEN ReadDataFile(inv[p])
                  ELSE CreateDataFile(inv[p])
       IN  /\ fs' = got.fs
           /\ inv' = [inv EXCEPT ![p] = got.r]
    /\ UNCHANGED <<scen, lastWrite>>

----------------------------------------------------------------------------
(* write_to_data_file                                                      *)

\* file.set_len(0) and buf_writer.seek(SeekFrom::Start(0))
SetLen(p) ==
    /\ inv[p].pc = "set_len"
    /\ fs' = [fs EXCEPT !.file = SetLen0(@)]
    /\ inv' = [inv EXCEPT ![p] = [@ EXCEPT !.pc = "write"]]
    /\ UNCHANGED <<scen, lastWrite>>

\* serde_json::to_writer_pretty(buf_writer, &data), taken to succeed, then
\* the message
ToWriter(p) ==
    /\ inv[p].pc = "write"
    /\ \E o \in KeyOrders(inv[p].data) :
          fs' = [fs EXCEPT !.file = WriteAt0(@, Serialize(inv[p].data, o))]
    /\ inv' = [inv EXCEPT ![p] = [Println(@, @.message) EXCEPT
                                     !.writes = @ + 1, !.pc = "done"]]
    /\ lastWrite' = [by |-> p, data |-> inv[p].data,
                     clean |-> FileLen(fs.file) = 0]
    /\ UNCHANGED scen

----------------------------------------------------------------------------
(* run_steam_game                                                          *)

\* lines `flatpak list` may print
SteamLine == <<"com", ".", "valvesoftware", ".", "Steam">>
SteamLinkLine == <<"com", ".", "valvesoftware", ".", "Steam", "Link">>
LookalikeLine == <<"io", ".", "com", "_", "valvesoftware", "_", "Steam">>
OtherSteamLine == <<"org", ".", "Steam", "Tools">>
BadUtf8Line == <<"com", ".", "valvesoftware", ".", "Steam", "0xFF">>
CalcLine == <<"org", ".", "gnome", ".", "Calculator">>

Listings ==
    SUBSET {SteamLine, SteamLinkLine, LookalikeLine, OtherSteamLine,
            BadUtf8Line, CalcLine}

\* one character that is no line end, as . of a regular expression matches
AnyChar(tok) == tok \in {".", "_"}

\* grep com.valvesoftware.Steam selects the line
GrepMatches(line) ==
    \E i \in 1..(Len(line) - 4) :
        /\ line[i] = "com"
        /\ AnyChar(line[i + 1])
        /\ line[i + 2] = "valvesoftware"
        /\ AnyChar(line[i + 3])
        /\ line[i + 4] = "Steam"

\* String::from_utf8(res) is Ok
ValidUtf8(res) == \A line \in res : \A i \in 1..Len(line) : line[i] # "0xFF"

\* v.contains("Steam")
ContainsSteam(v) == \E line \in v : \E i \in 1..Len(line) : line[i] = "Steam"

\* the separator, flatpak list piped through grep; started: both programs
\* could be started
ProbeFlatpak(p) ==
    /\ inv[p].pc = "probe"
    /\ \E started \in BOOLEAN, listing \in Listings :
          inv' = [inv EXCEPT ![p] =
                    IF started
                    THEN [Println(@, Msg("-----", <<>>, 0, 0)) EXCEPT
                            !.res = {l \in listing : GrepMatches(l)},
                            !.trace = Append(@, Event("probe", "flatpak list | grep", <<>>)),
                            !.pc = "launch"]
                    ELSE Abort(Println(@, Msg("-----", <<>>, 0, 0)))]
    /\ UNCHANGED <<fs, scen, lastWrite>>

\* the two branches taken for each other
SteamProgramSwapped(v) ==
    IF ContainsSteam(v) THEN "steam" ELSE "flatpak run com.valvesoftware.Steam"

\* the program and arguments run_steam_game starts for the probe's result
SteamProgram(v) ==
    IF ContainsSteam(v) THEN "flatpak run com.valvesoftware.Steam" ELSE "steam"

\* match String::from_utf8(res) { Ok(v) => spawn, Err => panic }; started:
\* the chosen program could be started
LaunchSteam(p) ==
    /\ inv[p].pc = "launch"
    /\ \E started \in BOOLEAN :
          inv' = [inv EXCEPT ![p] =
                    IF ValidUtf8(@.res) /\ started
                    THEN [@ EXCEPT
                            !.trace = Append(@, Event("spawn", SteamProgram(inv[p].res),
                                                      DeepLink(inv[p].game_id))),
                            !.pc = "done"]
                    ELSE Abort(@)]
    /\ UNCHANGED <<fs, scen, lastWrite>>

----------------------------------------------------------------------------
(* main                                                                    *)

\* play -i: game_str.parse::<u32>()
PlayById(p) ==
    /\ inv[p].pc = "main"
    /\ inv[p].cmd.op = "play" /\ inv[p].cmd.use_id
    /\ LET id == ParseU32(inv[p].cmd.game_str)
       IN  inv' = [inv EXCEPT ![p] =
                     IF id # Err
                     THEN [Println(@, Msg("Starting application with ID", <<>>, id, 0))
                             EXCEPT !.game_id = id,
                                    !.trace = Append(@, Event("id", "", ToDigits(id))),
                                    !.pc = "probe"]
                     ELSE [Println(@, Msg("Steam ID must be a number", <<>>, 0, 0))
                             EXCEPT !.pc = "done"]]
    /\ UNCHANGED <<fs, scen, lastWrite>>

\* the alias looked up as typed
LookupExact(data, game_str) ==
    IF game_str \in DOMAIN data THEN data[game_str] ELSE Err

\* data.get(&game_str.to_lowercase())
Lookup(data, game_str) ==
    IF to_lowercase(game_str) \in DOMAIN data
    THEN data[to_lowercase(game_str)]
    ELSE Err

\* play without -i
PlayByAlias(p) ==
    /\ inv[p].pc = "cmd"
    /\ inv[p].cmd.op = "play"
    /\ LET game == to_lowercase(inv[p].cmd.game_str)
           id == Lookup(inv[p].data, inv[p].cmd.game_str)
       IN  inv' = [inv EXCEPT ![p] =
                     IF id # Err
                     THEN [Println(@, Msg("Starting", game, id, 0))
                             EXCEPT !.game_id = id,
                                    !.trace = Append(@, Event("alias", "", ToDigits(id))),
                                    !.pc = "probe"]
                     ELSE [Println(@, Msg("Could not find alias", game, 0, 0))
                             EXCEPT !.pc = "done"]]
    /\ UNCHANGED <<fs, scen, lastWrite>>

\* the alias trimmed and its case kept
FormattedKeepCase(alias) == trim(alias)

\* alias.trim().to_lowercase()
Formatted(alias) == to_lowercase(trim(alias))

\* set without the test for an empty alias
SetAliasUnchecked(p) ==
    /\ inv[p].pc = "cmd"
    /\ inv[p].cmd.op = "set"
    /\ LET formatted == to_lowercase(trim(inv[p].cmd.alias))
           data == Insert(inv[p].data, formatted, inv[p].cmd.id)
       IN  inv' = [inv EXCEPT ![p] =
                     [@ EXCEPT
                        !.data = data,
                        !.message = Msg("successfully set", formatted,
                                        inv[p].cmd.id, Cardinality(DOMAIN data)),
                        !.pc = "set_len"]]
    /\ UNCHANGED <<fs, scen, lastWrite>>

\* set: insert the formatted alias and go on to write, or refuse
SetAlias(p) ==
    /\ inv[p].pc = "cmd"
    /\ inv[p].cmd.op = "set"
    /\ LET formatted == Formatted(inv[p].cmd.alias)
           data == Insert(inv[p].data, formatted, inv[p].cmd.id)
       IN  inv' = [inv EXCEPT ![p] =
                     IF Len(formatted) > 0
                     THEN [@ EXCEPT
                             !.data = data,
                             !.message = Msg("successfully set", formatted,
                                             inv[p].cmd.id, Cardinality(DOMAIN data)),
                             !.pc = "set_len"]
                     ELSE [Println(@, Msg("Alias must not be empty", <<>>, 0, 0))
                             EXCEPT !.pc = "done"]]
    /\ UNCHANGED <<fs, scen, lastWrite>>

\* the aliases matched after lower-casing, as play matches them
FoundNormalized(data, aliases) ==
    SelectSeq(aliases, LAMBDA a : to_lowercase(a) \in DOMAIN data)

\* aliases.retain(|a| data.contains_key(a))
Found(data, aliases) == SelectSeq(aliases, LAMBDA a : a \in DOMAIN data)

\* the "Alias '{}' not found" lines retain prints, in input order
NotFoundLines(data, aliases) ==
    LET missing == SelectSeq(aliases, LAMBDA a : a \notin DOMAIN data)
    IN  [i \in 1..Len(missing) |-> Msg("not found", missing[i], 0, 0)]

\* the loop that joins the removed aliases with ", "
RECURSIVE Join(_)
Join(list) ==
    IF list = <<>> THEN <<>>
    ELSE IF Len(list) = 1 THEN list[1]
    ELSE list[1] \o <<",", " ">> \o Join(Tail(list))

Range(f) == {f[i] : i \in DOMAIN f}

\* remove: drop the aliases found and go on to write, or report none
RemoveAliases(p) ==
    /\ inv[p].pc = "cmd"
    /\ inv[p].cmd.op = "remove"
    /\ LET aliases == Found(inv[p].data, inv[p].cmd.aliases)
           said == [inv[p] EXCEPT
                      !.out = @ \o NotFoundLines(inv[p].data, inv[p].cmd.aliases),
                      !.aliases = aliases]
           data == Retain(inv[p].data, DOMAIN inv[p].data \ Range(aliases))
       IN  inv' = [inv EXCEPT ![p] =
                     IF Len(aliases) > 0
                     THEN [said EXCEPT
                             !.data = data,
                             !.message = Msg("successfully removed", Join(aliases),
                                             0, Cardinality(DOMAIN data)),
                             !.pc = "set_len"]
                     ELSE [Println(said, Msg("Nothing to be removed", <<>>, 0,
                                             Cardinality(DOMAIN inv[p].data)))
                             EXCEPT !.pc = "done"]]
    /\ UNCHANGED <<fs, scen, lastWrite>>

tab_size == 4
num_tabs == 4

\* sorted.sort_by(|x, y| x.0.cmp(&y.0))
RECURSIVE SortKeys(_)
SortKeys(S) ==
    IF S = {} THEN <<>>
    ELSE LET m == CHOOSE x \in S : \A y \in S \ {x} : StrLess(x, y)
         IN  <<m>> \o SortKeys(S \ {m})

\* ((len as f64) / tab_size).round() as usize, halves rounded up
Calc(k) == (2 * Len(k) + tab_size) \div (2 * tab_size)

\* one entry of the listing: the id on a line of its own after a long alias
ListLine(k, v) ==
    Msg(IF Calc(k) > num_tabs THEN "alias, then id" ELSE "alias and id", k, v, 0)

\* list that goes on to write the file back
ListAliasesRewrites(p) ==
    /\ inv[p].pc = "cmd"
    /\ inv[p].cmd.op = "list"
    /\ inv' = [inv EXCEPT ![p] =
                 [@ EXCEPT !.out = <<Msg("Path", <<>>, 0, 0)>>,
                           !.pc = "set_len"]]
    /\ UNCHANGED <<fs, scen, lastWrite>>

\* list: the path, then the entries sorted by alias
ListAliases(p) ==
    /\ inv[p].pc = "cmd"
    /\ inv[p].cmd.op = "list"
    /\ LET sorted == SortKeys(DOMAIN inv[p].data)
       IN  inv' = [inv EXCEPT ![p] =
                     [@ EXCEPT
                        !.out = <<Msg("Path", <<>>, 0, 0)>> \o
                                [i \in 1..Len(sorted) |->
                                    ListLine(sorted[i], inv[p].data[sorted[i]])],
                        !.pc = "done"]]
    /\ UNCHANGED <<fs, scen, lastWrite>>

----------------------------------------------------------------------------
(* Invocations                                                             *)

\* how far the run so far has followed: fresh machine, set ets2 227300,
\* play ets2, remove ets2 (-1: it has not)
NextScen(c) ==
    IF scen = 0 /\ c = SetCmd(ets2, 227300) THEN 1
    ELSE IF scen = 1 /\ c = PlayCmd(FALSE, ets2) THEN 2
    ELSE IF scen = 2 /\ c = RemoveCmd(<<ets2>>) THEN 3
    ELSE -1

\* the user runs steamlet, one invocation after the other
Start(p) ==
    /\ p = 1
    /\ inv[p].pc \in Terminal
    /\ \E c \in Commands :
          /\ inv' = [inv EXCEPT ![p] = NewInv(c)]
          /\ scen' = NextScen(c)
    /\ UNCHANGED <<fs, lastWrite>>

\* steamlet is run while another invocation is still running
StartConc(p) ==
    /\ inv[p].pc \in Terminal
    /\ \E c \in ConcCommands : inv' = [inv EXCEPT ![p] = NewInv(c)]
    /\ scen' = -1
    /\ UNCHANGED <<fs, lastWrite>>

\* the machine before steamlet runs: no data directory; the directory
\* without the file; the file with content that is no JSON document
InitFs ==
    {[dir |-> FALSE, file |-> NoFile],
     [dir |-> TRUE, file |-> NoFile],
     [dir |-> TRUE, file |-> GarbageFile]}

NoWrite == [by |-> 0, data |-> EmptyMap, clean |-> TRUE]

Init ==
    /\ fs \in InitFs
    /\ inv = [p \in Procs |-> Idle]
    /\ scen = IF fs.dir THEN -1 ELSE 0
    /\ lastWrite = NoWrite

Next ==
    \E p \in Procs :
        \/ Start(p)
        \/ PlayById(p)
        \/ DataDirExists(p)
        \/ OpenDataFile(p)
        \/ PlayByAlias(p)
        \/ SetAlias(p)
        \/ RemoveAliases(p)
        \/ ListAliases(p)
        \/ SetLen(p)
        \/ ToWriter(p)
        \/ ProbeFlatpak(p)
        \/ LaunchSteam(p)

Spec == Init /\ [][Next]_vars

NextConc ==
    \E p \in Procs :
        \/ StartConc(p)
        \/ DataDirExists(p)
        \/ OpenDataFile(p)
        \/ SetAlias(p)
        \/ RemoveAliases(p)
        \/ SetLen(p)
        \/ ToWriter(p)

SpecConc == Init /\ [][NextConc]_vars

----------------------------------------------------------------------------
(* Properties                                                              *)

\* the mapping a later invocation loads from the file
Stored == FromReader(fs.file)

\* the invocation is past the point where main() chose its branch
Branched(r) == r.pc \notin {"idle", "main", "open", "cmd"}

LastOut(r) == r.out[Len(r.out)]

Spawns(r) == {i \in 1..Len(r.trace) : r.trace[i].ev = "spawn"}

\* the inputs that differ from a in case alone
CaseVariants(a) ==
    {b \in AliasInputs :
        /\ Len(b) = Len(a)
        /\ \A i \in 1..Len(a) : LowerChar(b[i]) = LowerChar(a[i])}

\* C1: after set a id has completed, for an alias a that is not empty once
\* trimmed, a later play of any case variant of a finds id, and the key in
\* the file is a in lower case.
C1_RoundTrip ==
    LET r == inv[1]
    IN  (r.pc = "done" /\ r.cmd.op = "set" /\ trim(r.cmd.alias) # <<>>) =>
            /\ \A b \in CaseVariants(r.cmd.alias) : Lookup(Stored, b) = r.cmd.id
            /\ to_lowercase(r.cmd.alias) \in DOMAIN Stored

\* C1 as amended: after set a id has completed, for an alias a that is not
\* empty once trimmed, a later play of any case variant of a trimmed finds
\* id, and the key in the file is a trimmed and in lower case.
C1_RoundTripTrimmed ==
    LET r == inv[1]
    IN  (r.pc = "done" /\ r.cmd.op = "set" /\ trim(r.cmd.alias) # <<>>) =>
            /\ \A b \in CaseVariants(trim(r.cmd.alias)) :
                  Lookup(Stored, b) = r.cmd.id
            /\ to_lowercase(trim(r.cmd.alias)) \in DOMAIN Stored

C1_Witness ==
    LET r == inv[1]
    IN  /\ r.pc = "done"
        /\ r.cmd = SetCmd(padEts2, 227300)
        /\ bee \in DOMAIN Stored
        /\ Lookup(Stored, ETS2) = 227300
        /\ Lookup(Stored, padEts2) = Err

\* C2: remove L on the stored mapping M matches the inputs as given, removes
\* exactly the keys of M that occur in L and leaves the rest, reports each
\* other input as not found, writes the file once if an input matched and
\* not at all if none did, and reports the size of the resulting mapping
\* and the matched inputs in input order.
C2_RemovalPartitioning ==
    LET r == inv[1]
        M == r.loaded
        L == r.cmd.aliases
        matched == SelectSeq(L, LAMBDA a : \E k \in DOMAIN M : k = a)
        missing == SelectSeq(L, LAMBDA a : \A k \in DOMAIN M : k # a)
        rest == [k \in DOMAIN M \ Range(L) |-> M[k]]
    IN  (r.pc = "done" /\ r.cmd.op = "remove") =>
            /\ r.aliases = matched
            /\ Len(r.out) = Len(missing) + 1
            /\ \A i \in 1..Len(missing) :
                  r.out[i] = Msg("not found", missing[i], 0, 0)
            /\ IF matched # <<>>
               THEN /\ r.writes = 1
                    /\ WellFormed(fs.file)
                    /\ Stored = rest
                    /\ LastOut(r) = Msg("successfully removed", Join(matched),
                                        0, Cardinality(DOMAIN Stored))
               ELSE /\ r.writes = 0
                    /\ fs.file = (IF r.file0 = NoFile THEN EmptyFile ELSE r.file0)
                    /\ LastOut(r) = Msg("Nothing to be removed", <<>>, 0,
                                        Cardinality(DOMAIN M))

C2_Witness ==
    LET r == inv[1]
    IN  /\ r.pc = "done"
        /\ r.cmd = RemoveCmd(<<ets2, ETS2>>)
        /\ DOMAIN r.loaded = {ets2, bee}
        /\ DOMAIN Stored = {bee}
        /\ Stored[bee] = r.loaded[bee]
        /\ r.out[1] = Msg("not found", ETS2, 0, 0)

\* the user errors: set with an alias empty once trimmed, play -i with no
\* number, play with an alias that is not stored, remove with no stored alias
UserErrorLine(r) ==
    CASE r.cmd.op = "set" /\ r.opened /\ trim(r.cmd.alias) = <<>>
            -> "Alias must not be empty"
      [] r.cmd.op = "play" /\ r.cmd.use_id /\ ParseU32(r.cmd.game_str) = Err
            -> "Steam ID must be a number"
      [] r.cmd.op = "play" /\ ~r.cmd.use_id /\ r.opened
            /\ to_lowercase(r.cmd.game_str) \notin DOMAIN r.loaded
            -> "Could not find alias"
      [] r.cmd.op = "remove" /\ r.opened
            /\ \A i \in 1..Len(r.cmd.aliases) : r.cmd.aliases[i] \notin DOMAIN r.loaded
            -> "Nothing to be removed"
      [] OTHER -> ""

\* C3: on each user-error path the command reports its message, writes
\* nothing to the file, starts no client and ends normally.
C3_UserErrorsHarmless ==
    LET r == inv[1]
    IN  (UserErrorLine(r) # "" /\ Branched(r)) =>
            /\ r.pc = "done"
            /\ r.out # <<>>
            /\ LastOut(r).kind = UserErrorLine(r)
            /\ r.writes = 0
            /\ Spawns(r) = {}
            /\ r.trace = <<>>
            /\ r.opened =>
                  fs.file = (IF r.file0 = NoFile THEN EmptyFile ELSE r.file0)

C3_Witness ==
    LET r == inv[1]
    IN  /\ r.pc = "done"
        /\ r.cmd = SetCmd(blank, 1)
        /\ r.loaded # EmptyMap
        /\ Stored = r.loaded

\* C4: an existing file with content that is no document, or none, is
\* opened as the empty mapping without aborting, and a set that follows
\* with an alias not empty once normalised leaves the file holding exactly
\* the document of that one entry.
C4_MalformedRecovery ==
    LET r == inv[1]
        a == to_lowercase(trim(r.cmd.alias))
    IN  (r.opened /\ r.file0 # NoFile /\ ~WellFormed(r.file0)) =>
            /\ r.loaded = EmptyMap
            /\ r.pc # "aborted"
            /\ (r.pc = "done" /\ r.cmd.op = "set" /\ a # <<>>) =>
                  /\ fs.file = [toks |-> <<LBrace, Entry(a, r.cmd.id), RBrace>>,
                                junk |-> 0]
                  /\ DOMAIN Stored = {a}
                  /\ Stored[a] = r.cmd.id

C4_Witness ==
    LET r == inv[1]
    IN  /\ r.pc = "done"
        /\ r.cmd = SetCmd(padEts2, 1)
        /\ r.file0 = GarbageFile
        /\ FileLen(fs.file) < FileLen(r.file0)
        /\ DOMAIN Stored = {ets2}

\* C5: with the data directory there and the file missing, opening does not
\* fail the command: it goes on with the empty mapping.
C5_MissingFileLenient ==
    LET r == inv[1]
    IN  (r.dir_exists /\ fs.file = NoFile /\ r.pc \notin {"idle", "main", "open"}) =>
            /\ r.pc # "aborted"
            /\ r.opened
            /\ r.loaded = EmptyMap

\* C6: list and play leave the content of an existing file as it is; only a
\* set with an alias not empty once normalised and a remove with a matched
\* alias change it.
C6_ReadsNeverWrite ==
    [][\A p \in Procs :
          (inv'[p] # inv[p] /\ fs.file # NoFile) =>
             /\ inv[p].cmd.op \in {"list", "play"} => fs'.file = fs.file
             /\ fs'.file # fs.file =>
                   \/ /\ inv[p].cmd.op = "set"
                      /\ to_lowercase(trim(inv[p].cmd.alias)) # <<>>
                   \/ /\ inv[p].cmd.op = "remove"
                      /\ \E i \in 1..Len(inv[p].cmd.aliases) :
                            inv[p].cmd.aliases[i] \in DOMAIN inv[p].loaded]_vars

C6_Witness ==
    LET r == inv[1]
    IN  /\ r.pc = "done"
        /\ r.cmd.op = "list"
        /\ Len(r.out) = 3
        /\ r.file0 = fs.file

\* every key is lower-case and not empty
KeysOk(m) ==
    \A k \in DOMAIN m : k # <<>> /\ \A i \in 1..Len(k) : LowerChar(k[i]) = k[i]

\* C7: whenever the file is written, every key of the mapping written is
\* lower-case and not empty, also when entries were loaded from the file.
C7_KeysAtWrite ==
    /\ \A p \in Procs : inv[p].pc \in {"set_len", "write"} => KeysOk(inv[p].data)
    /\ KeysOk(Stored)
    /\ KeysOk(lastWrite.data)

C7_Witness ==
    LET r == inv[1]
    IN  /\ r.pc = "write"
        /\ r.cmd.op = "set"
        /\ r.cmd.alias = ETS2
        /\ DOMAIN r.loaded = {bee}
        /\ DOMAIN r.data = {bee, ets2}

\* C8: from a machine without the data directory, set ets2 227300 creates
\* directory and file and leaves exactly {ets2: 227300}, count 1; play ets2
\* then looks up 227300 and calls the launcher with it; remove ets2 then
\* leaves the empty mapping, count 0.
C8_EndToEnd ==
    LET r == inv[1]
    IN  /\ (scen = 1 /\ r.pc \notin {"main", "open"}) =>
              /\ r.pc # "aborted"
              /\ fs.dir /\ fs.file # NoFile
        /\ (scen = 1 /\ r.pc \in Terminal) =>
              /\ WellFormed(fs.file)
              /\ DOMAIN Stored = {ets2} /\ Stored[ets2] = 227300
              /\ r.out = <<Msg("successfully set", ets2, 227300, 1)>>
        /\ (scen = 2 /\ Branched(r)) =>
              /\ r.game_id = 227300
              /\ r.trace # <<>> /\ r.trace[1] = Event("alias", "", ToDigits(227300))
              /\ r.out[1] = Msg("Starting", ets2, 227300, 0)
              /\ \A i \in Spawns(r) : r.trace[i].link = DeepLink(227300)
              /\ DOMAIN Stored = {ets2} /\ Stored[ets2] = 227300
        /\ (scen = 3 /\ r.pc \in Terminal) =>
              /\ r.pc = "done"
              /\ WellFormed(fs.file)
              /\ Stored = EmptyMap
              /\ r.out = <<Msg("successfully removed", ets2, 0, 0)>>

C8_Witness ==
    /\ scen = 3
    /\ inv[1].pc = "done"
    /\ fs.file = [toks |-> <<LBrace, RBrace>>, junk |-> 0]

\* the game id the play command stands for
Resolved(r) ==
    IF r.cmd.use_id THEN ParseU32(r.cmd.game_str)
    ELSE IF to_lowercase(r.cmd.game_str) \in DOMAIN r.loaded
         THEN r.loaded[to_lowercase(r.cmd.game_str)]
         ELSE Err

\* the probe's output holds a line with the package identifier
ProbeFound(r) == \E line \in r.res : GrepMatches(line)

Quiet == \A p \in Procs : inv[p].pc \in Terminal

\* C10: when invocations that write run interleaved, the file ends up
\* holding the complete mapping of the invocation that wrote last.
C10_LastWriterWins ==
    (Quiet /\ lastWrite.by # 0) =>
        /\ WellFormed(fs.file)
        /\ Stored = lastWrite.data

\* C10 as amended: it ends up holding the complete mapping of the invocation
\* that wrote last if no other write fell between that invocation's cut of
\* the file and its write.
C10_LastWriterWinsClean ==
    (Quiet /\ lastWrite.by # 0 /\ lastWrite.clean) =>
        /\ WellFormed(fs.file)
        /\ Stored = lastWrite.data

\* both invocations reported success and the update of one is lost
C10_Witness ==
    /\ Quiet
    /\ inv[1].cmd = SetCmd(ets2, 227300) /\ inv[1].pc = "done"
    /\ inv[2].cmd = SetCmd(bee, 1) /\ inv[2].pc = "done"
    /\ inv[1].loaded = EmptyMap /\ inv[2].loaded = EmptyMap
    /\ inv[1].out = <<Msg("successfully set", ets2, 227300, 1)>>
    /\ inv[2].out = <<Msg("successfully set", bee, 1, 1)>>
    /\ lastWrite.by = 1 /\ lastWrite.clean
    /\ DOMAIN Stored = {ets2}

====
